---- MODULE Spec2Model ----
(***************************************************************************)
(* Model of consensus_health_checker.py: one run of main() per cron cycle. *)
(* Text is a sequence of tokens (words, and " " for every blank), so that  *)
(* str.format, str.replace(' ', '_') and ', '.join are computed, not       *)
(* assumed.  Times are Unix seconds.                                       *)
(***************************************************************************)
EXTENDS Integers, Sequences, FiniteSets, TLC

\* ------------------------------------------------------------------ bounds

\* number of cron cycles explored
MaxCycles == 2

\* ------------------------------------------------------- program constants

\* suppression hours by runlevel, grace period, seconds per hour
NOTICE_HOURS == 24
WARNING_HOURS == 4
ERROR_HOURS == 0
GRACE_SECONDS == 1800
HOUR_SECONDS == 3600
\* CLOCK_SKEW threshold (seconds) and LATENCY factor
SKEW_LIMIT == 10
LATENCY_FACTOR == 5
\* more than this many stale consensuses is an ERROR
STALE_ERROR_ABOVE == 3
DAY_SECONDS == 86400

EMAIL_SUBJECT == "Consensus issues"

\* ------------------------------------------------------------------- text

SP == <<"lit", " ">>
L(w) == <<"lit", w>>
F(name) == <<"fld", name>>

\* str.format(**attr): every {field} is replaced by the value of the keyword
\* of that name; a field with no keyword raises KeyError (ok = FALSE).
RECURSIVE format(_, _)
format(fmt, attr) ==
  IF fmt = <<>> THEN [ok |-> TRUE, text |-> <<>>]
  ELSE LET p == Head(fmt)
           rest == format(Tail(fmt), attr)
       IN IF p[1] = "lit"
          THEN [ok |-> rest.ok, text |-> IF rest.ok THEN <<p[2]>> \o rest.text ELSE <<>>]
          ELSE IF p[2] \notin DOMAIN attr
               THEN [ok |-> FALSE, text |-> <<>>]
               ELSE [ok |-> rest.ok, text |-> IF rest.ok THEN attr[p[2]] \o rest.text ELSE <<>>]

\* str.replace(' ', '_')
replace_spaces(text) == [i \in DOMAIN text |-> IF text[i] = " " THEN "_" ELSE text[i]]

\* ', '.join(names): each name one token
RECURSIVE join(_)
join(names) ==
  IF names = <<>> THEN <<>>
  ELSE IF Len(names) = 1 THEN <<names[1]>>
  ELSE <<names[1], ",", " ">> \o join(Tail(names))

\* str(n) of an integer, as one token
str(n) == <<ToString(n)>>

\* the text of a configuration value: digits is whether int() accepts it
Num(n) == [digits |-> TRUE, n |-> n]
Junk == [digits |-> FALSE, n |-> 0]

\* --------------------------------------------------------------- registry

\* DIRECTORY_AUTHORITIES (tor26 already removed): two voting authorities and
\* one without a v3ident, in the order the registry is iterated
NoV3ident == "None"
AuthorityOrder == <<"moria1", "dizum", "Serge">>
DIRECTORY_AUTHORITIES ==
  [n \in {"moria1", "dizum", "Serge"} |->
     [nickname |-> n,
      v3ident |-> CASE n = "moria1" -> "V_moria1" [] n = "dizum" -> "V_dizum" [] OTHER -> NoV3ident,
      fingerprint |-> CASE n = "moria1" -> "F_moria1" [] n = "dizum" -> "F_dizum" [] OTHER -> "F_Serge"]]

Runlevel == {"NOTICE", "WARNING", "ERROR"}

\* ---------------------------------------------------------- configuration

\* msg.* format strings of consensus_health.cfg
MSG_AUTHORITY_UNAVAILABLE == <<L("Unable"), SP, L("to"), SP, L("retrieve"), SP, F("fetch_type"), SP, F("authority"), SP, F("error")>>
MSG_CLOCK_SKEW == <<L("clock"), SP, L("of"), SP, F("authority"), SP, L("is"), SP, F("difference"), SP, L("off")>>
MSG_LATENCY == <<L("latency"), SP, F("authority"), SP, F("time_taken"), SP, F("median_time"), SP, F("authority_times")>>
MSG_MISSING_LATEST_CONSENSUS == <<L("stale"), SP, L("consensus"), SP, F("authorities")>>
MSG_CERTIFICATE_ABOUT_TO_EXPIRE == <<L("certificate"), SP, F("authority"), SP, L("expires"), SP, F("duration")>>
MSG_CURRENT_SHARED_RANDOM_MISSING == <<L("no"), SP, L("current"), SP, L("srv")>>
MSG_PREVIOUS_SHARED_RANDOM_MISSING == <<L("no"), SP, L("previous"), SP, L("srv")>>
MSG_TOO_MANY_UNMEASURED_RELAYS == <<F("authority"), SP, L("unmeasured"), SP, F("unmeasured"), SP, L("of"), SP, F("total"), SP, F("percentage")>>

AllMsg ==
  ("AUTHORITY_UNAVAILABLE" :> MSG_AUTHORITY_UNAVAILABLE) @@
  ("CLOCK_SKEW" :> MSG_CLOCK_SKEW) @@
  ("LATENCY" :> MSG_LATENCY) @@
  ("MISSING_LATEST_CONSENSUS" :> MSG_MISSING_LATEST_CONSENSUS) @@
  ("CERTIFICATE_ABOUT_TO_EXPIRE" :> MSG_CERTIFICATE_ABOUT_TO_EXPIRE) @@
  ("CURRENT_SHARED_RANDOM_MISSING" :> MSG_CURRENT_SHARED_RANDOM_MISSING) @@
  ("PREVIOUS_SHARED_RANDOM_MISSING" :> MSG_PREVIOUS_SHARED_RANDOM_MISSING) @@
  ("TOO_MANY_UNMEASURED_RELAYS" :> MSG_TOO_MANY_UNMEASURED_RELAYS)

\* restriction of a function
Restrict(f, S) == [x \in S |-> f[x]]
Empty == [x \in {} |-> <<>>]
\* the values of a function or sequence
Range(f) == {f[x] : x \in DOMAIN f}

\* The configurations a run may be started with (the CONFIG defaults of the
\* source are all empty; these are contents of the configuration files).
\*   ConfigFull     every template, no suppression override
\*   ConfigPartial  msg.CLOCK_SKEW, msg.AUTHORITY_UNAVAILABLE and
\*                  msg.MISSING_LATEST_CONSENSUS are missing, an override
\*                  for an ERROR template, a non-numeric override, one
\*                  contact only
\*   ConfigOdd      msg.CLOCK_SKEW wants a field the issue does not carry,
\*                  a zero override and a very long override
ConfigFull ==
  [msg |-> AllMsg,
   suppression |-> Empty,
   contact_address |-> ("moria1" :> "moria1@example") @@ ("dizum" :> "dizum@example"),
   contact_via_bcc |-> {"dizum"}]
ConfigPartial ==
  [msg |-> Restrict(AllMsg, DOMAIN AllMsg \ {"CLOCK_SKEW", "AUTHORITY_UNAVAILABLE", "MISSING_LATEST_CONSENSUS"}),
   suppression |-> ("CURRENT_SHARED_RANDOM_MISSING" :> Num(4)) @@ ("CERTIFICATE_ABOUT_TO_EXPIRE" :> Junk),
   contact_address |-> ("moria1" :> "moria1@example"),
   contact_via_bcc |-> {}]
ConfigOdd ==
  [msg |-> ("CLOCK_SKEW" :> (MSG_CLOCK_SKEW \o <<SP, F("url")>>)) @@ AllMsg,
   suppression |-> ("CERTIFICATE_ABOUT_TO_EXPIRE" :> Num(0)) @@ ("MISSING_LATEST_CONSENSUS" :> Num(500000)),
   contact_address |-> ("moria1" :> "moria1@example") @@ ("dizum" :> "dizum@example"),
   contact_via_bcc |-> {"moria1", "dizum"}]
Configs == {ConfigFull, ConfigPartial, ConfigOdd}

\* ------------------------------------------------------------------ state

VARIABLES
  CONFIG,             \* stem.util.conf 'consensus_health' as loaded
  last_notified,      \* stem.util.conf 'last_notified', saved to last_notified.cfg
  now,                \* time.time() of this cycle
  cycle,              \* number of the cron cycle
  pc,                 \* position of main()
  replies,            \* what each authority answers in this cycle, per label
  consensuses, votes, \* nickname -> document fetched
  issues,             \* list of Issue
  is_all_suppressed,
  destinations,       \* authority -> Destination or None
  sent,               \* the calls of util.send in this cycle
  limited,            \* indices of issues for which is_rate_limited returned True
  noticed,            \* number of issues rate_limit_notice has returned for
  failure,            \* where an exception left main(), "none" otherwise
  report,             \* what main logged in place of a notification
  start_notified      \* last_notified as loaded at the start of the cycle

vars == <<CONFIG, last_notified, now, cycle, pc, replies, consensuses, votes, issues,
          is_all_suppressed, destinations, sent, limited, noticed, failure, report, start_notified>>

\* ------------------------------------------------------------------ Issue

\* Issue(runlevel, template, **attr); 'to' is one of the keywords
Issue(runlevel, template, attr) == [runlevel |-> runlevel, template |-> template, attr |-> attr]

authorities_of(issue) == IF "to" \in DOMAIN issue.attr THEN issue.attr["to"] ELSE <<>>

get_message(issue) ==
  IF issue.template \in DOMAIN CONFIG.msg
  THEN LET r == format(CONFIG.msg[issue.template], issue.attr)
       IN IF r.ok THEN r.text ELSE <<>>
  ELSE <<>>

get_runlevel(issue) == issue.runlevel

\* str(issue)
issue_str(issue) == <<get_runlevel(issue), ":", " ">> \o get_message(issue)

None == [address |-> "None", bcc |-> FALSE, none |-> TRUE]
Destination(address, bcc) == [address |-> address, bcc |-> bcc, none |-> FALSE]

RECURSIVE destinations_of(_)
destinations_of(auths) ==
  IF auths = <<>> THEN Empty
  ELSE LET authority == auths[Len(auths)]
           d == IF authority \in DOMAIN CONFIG.contact_address
                THEN Destination(CONFIG.contact_address[authority], authority \in CONFIG.contact_via_bcc)
                ELSE None
       IN (authority :> d) @@ destinations_of(SubSeq(auths, 1, Len(auths) - 1))

get_destinations(issue) == destinations_of(authorities_of(issue))

\* the keywords get_suppression_key overrides, per template
volatile(template) ==
  CASE template = "TOO_MANY_UNMEASURED_RELAYS" ->
         [unmeasured |-> str(0), total |-> str(0), percentage |-> str(0)]
    [] template = "BANDWIDTH_AUTHORITIES_OUT_OF_SYNC" -> [authorities |-> <<>>]
    [] template = "LATENCY" ->
         [authority |-> <<>>, time_taken |-> <<>>, median_time |-> <<>>, authority_times |-> <<>>]
    [] template = "CLOCK_SKEW" -> [authority |-> <<>>, difference |-> <<>>]
    [] template = "FLAG_COUNT_DIFFERS" -> [consensus_count |-> str(0), vote_count |-> str(0)]
    [] OTHER -> Empty

SpecialTemplates ==
  {"TOO_MANY_UNMEASURED_RELAYS", "BANDWIDTH_AUTHORITIES_OUT_OF_SYNC", "LATENCY", "CLOCK_SKEW", "FLAG_COUNT_DIFFERS"}

\* get_suppression_key without the branches that blank the volatile keywords
get_suppression_key_plain(issue) ==
  [ok |-> TRUE, key |-> replace_spaces(get_message(issue))]

\* [ok |-> FALSE] is the KeyError of CONFIG['msg'][template] or of format
get_suppression_key(issue) ==
  IF issue.template \in SpecialTemplates
  THEN IF issue.template \notin DOMAIN CONFIG.msg
       THEN [ok |-> FALSE, key |-> <<>>]
       ELSE LET r == format(CONFIG.msg[issue.template], volatile(issue.template) @@ issue.attr)
            IN IF r.ok THEN [ok |-> TRUE, key |-> replace_spaces(r.text)]
               ELSE [ok |-> FALSE, key |-> <<>>]
  ELSE [ok |-> TRUE, key |-> replace_spaces(get_message(issue))]

severity_hours(issue) ==
  IF get_runlevel(issue) = "NOTICE" THEN NOTICE_HOURS
  ELSE IF get_runlevel(issue) = "WARNING" THEN WARNING_HOURS
  ELSE ERROR_HOURS

\* get_suppression_duration without the lookup of CONFIG['suppression']
get_suppression_duration_by_severity(issue) == severity_hours(issue)

\* get_suppression_duration with int() taken to give a number for any text
get_suppression_duration_unparsed(issue) ==
  IF issue.template \in DOMAIN CONFIG.suppression
  THEN CONFIG.suppression[issue.template].n
  ELSE severity_hours(issue)

get_suppression_duration(issue) ==
  IF issue.template \in DOMAIN CONFIG.suppression
     /\ CONFIG.suppression[issue.template].digits
  THEN CONFIG.suppression[issue.template].n
  ELSE severity_hours(issue)

\* Config.get(key, 0): the stored text as an integer, 0 when the key is
\* missing or its text is no integer
last_seen_of(store, key) ==
  IF key \in DOMAIN store /\ store[key].digits THEN store[key].n ELSE 0

\* is_rate_limited with "suppression_time_remaining < 0" for "<= 0"
is_rate_limited_strict(issue, store) ==
  LET k == get_suppression_key(issue)
      hours == get_suppression_duration(issue)
      suppression_time == HOUR_SECONDS * hours + GRACE_SECONDS
      suppression_time_remaining == suppression_time - (now - last_seen_of(store, k.key))
  IN IF ~k.ok THEN [ok |-> FALSE, value |-> FALSE]
     ELSE IF hours = 0 THEN [ok |-> TRUE, value |-> FALSE]
     ELSE [ok |-> TRUE, value |-> ~(suppression_time_remaining < 0)]

\* [ok |-> FALSE] when get_suppression_key raised
is_rate_limited(issue, store) ==
  LET k == get_suppression_key(issue)
      hours == get_suppression_duration(issue)
      suppression_time == HOUR_SECONDS * hours + GRACE_SECONDS
      suppression_time_remaining == suppression_time - (now - last_seen_of(store, k.key))
  IN IF ~k.ok THEN [ok |-> FALSE, value |-> FALSE]
     ELSE IF hours = 0 THEN [ok |-> TRUE, value |-> FALSE]
     ELSE [ok |-> TRUE, value |-> ~(suppression_time_remaining <= 0)]

\* rate_limit_notice without its "if hours == 0: return"
rate_limit_notice_unconditional(issue, store) ==
  LET k == get_suppression_key(issue)
  IN IF ~k.ok THEN [ok |-> FALSE, store |-> store]
     ELSE [ok |-> TRUE, store |-> (k.key :> Num(now)) @@ store]

\* the store after rate_limit_notice(issue); [ok |-> FALSE] when
\* get_suppression_key raised
rate_limit_notice(issue, store) ==
  LET k == get_suppression_key(issue)
      hours == get_suppression_duration(issue)
  IN IF ~k.ok THEN [ok |-> FALSE, store |-> store]
     ELSE IF hours = 0 THEN [ok |-> TRUE, store |-> store]
     ELSE [ok |-> TRUE, store |-> (k.key :> Num(now)) @@ store]

\* -------------------------------------------------------------- documents

\* the voting authorities of the registry, in iteration order
RECURSIVE voting_from(_)
voting_from(i) ==
  IF i > Len(AuthorityOrder) THEN <<>>
  ELSE IF DIRECTORY_AUTHORITIES[AuthorityOrder[i]].v3ident = NoV3ident
       THEN voting_from(i + 1)
       ELSE <<AuthorityOrder[i]>> \o voting_from(i + 1)
VotingOrder == voting_from(1)
Voting == {VotingOrder[i] : i \in DOMAIN VotingOrder}

\* the iteration order of a dict or set keyed by nickname: the registry's
\* order, then the nicknames a caller may use beyond the modelled registry
DictOrder == AuthorityOrder \o <<"gabelmoo", "maatuska", "longclaw">>

\* the members of S in that order
RECURSIVE in_order_from(_, _)
in_order_from(S, i) ==
  IF i > Len(DictOrder) THEN <<>>
  ELSE IF DictOrder[i] \in S
       THEN <<DictOrder[i]>> \o in_order_from(S, i + 1)
       ELSE in_order_from(S, i + 1)
in_order(S) == in_order_from(S, 1)

\* consensus documents an authority may serve at time t
ConsensusGood(t) ==
  [valid_after |-> t - 1800, shared_randomness_current_value |-> "srv", shared_randomness_previous_value |-> "srv"]
ConsensusStale(t) ==
  [valid_after |-> t - 7200, shared_randomness_current_value |-> "srv", shared_randomness_previous_value |-> "srv"]
ConsensusNoSrv(t) ==
  [valid_after |-> t - 1800, shared_randomness_current_value |-> "None", shared_randomness_previous_value |-> "None"]

\* time.time() of the first cycle
StartTime == 1572000000

\* vote documents: the certificate of the one directory_authorities entry
\* expires 30 or 6 days after the first cycle, or the vote has no such entry
VoteGood == [directory_authorities |-> <<[expires |-> StartTime + 30 * DAY_SECONDS]>>]
VoteExpiring == [directory_authorities |-> <<[expires |-> StartTime + 6 * DAY_SECONDS]>>]
VoteNoAuthority == [directory_authorities |-> <<>>]

NoDoc == [valid_after |-> 0]
Reply(status, doc, time_taken, skew) ==
  [status |-> status, doc |-> doc, time_taken |-> time_taken, skew |-> skew]

\* what an authority may answer to a query: an error (query.run raises), a
\* reply without Date header (strptime raises after the document is kept),
\* or a document with the seconds it took and the skew of its Date header.
\* The first voting authority ranges over every kind of answer, the others
\* over an error and a good document.
BasicAnswers(label, t) ==
  { Reply("error", NoDoc, 0, 0),
    Reply("ok", IF label = "consensus" THEN ConsensusGood(t) ELSE VoteGood, 1, 0) }
ConsensusAnswers(t) ==
  BasicAnswers("consensus", t) \cup
  { Reply("no_date", ConsensusGood(t), 1, 0),
    Reply("ok", ConsensusGood(t), 1, 20),
    Reply("ok", ConsensusStale(t), 1, 0),
    Reply("ok", ConsensusNoSrv(t), 1, 0) }
VoteAnswers(t) ==
  BasicAnswers("vote", t) \cup
  { Reply("ok", VoteExpiring, 1, 0),
    Reply("ok", VoteNoAuthority, 1, 0) }
Answers(label, t) ==
  { r \in [Voting -> ConsensusAnswers(t) \cup VoteAnswers(t)] :
      \A i \in DOMAIN VotingOrder :
        r[VotingOrder[i]] \in
          IF i > 1 THEN BasicAnswers(label, t)
          ELSE IF label = "consensus" THEN ConsensusAnswers(t) ELSE VoteAnswers(t) }

ErrorText(status) ==
  IF status = "error" THEN <<"timed", " ", "out">> ELSE <<"TypeError">>

\* sorted(times_taken.values())[len(times_taken) / 2]
median_of(times_taken) ==
  LET idx == Cardinality(DOMAIN times_taken) \div 2
  IN CHOOSE v \in {times_taken[a] : a \in DOMAIN times_taken} :
       /\ Cardinality({a \in DOMAIN times_taken : times_taken[a] < v}) <= idx
       /\ idx < Cardinality({a \in DOMAIN times_taken : times_taken[a] <= v})

seconds_str(t) == <<ToString(t), "s">>

RECURSIVE authority_times_str(_, _)
authority_times_str(times_taken, order) ==
  IF order = <<>> THEN <<>>
  ELSE LET one == <<Head(order), " ", "=>", " ">> \o seconds_str(times_taken[Head(order)])
       IN IF Len(order) = 1 THEN one
          ELSE one \o <<",", " ">> \o authority_times_str(times_taken, Tail(order))

\* the loop of _get_documents with "except Exception: pass"
RECURSIVE fetch_loop_silent(_, _, _)
fetch_loop_silent(label, r, order) ==
  IF order = <<>> THEN [documents |-> Empty, issues |-> <<>>]
  ELSE LET authority == order[Len(order)]
           before == fetch_loop_silent(label, r, SubSeq(order, 1, Len(order) - 1))
       IN IF r[authority].status = "error"
          THEN before
          ELSE [documents |-> (authority :> r[authority].doc) @@ before.documents,
                issues |-> before.issues]

\* the loop over DIRECTORY_AUTHORITIES.values() of _get_documents
RECURSIVE fetch_loop(_, _, _)
fetch_loop(label, r, order) ==
  IF order = <<>> THEN [documents |-> Empty, issues |-> <<>>]
  ELSE LET authority == order[Len(order)]
           before == fetch_loop(label, r, SubSeq(order, 1, Len(order) - 1))
           unavailable ==
             Issue("ERROR", "AUTHORITY_UNAVAILABLE",
                   [fetch_type |-> <<label>>, authority |-> <<authority>>,
                    url |-> <<"http://", authority>>, error |-> ErrorText(r[authority].status),
                    to |-> <<authority>>])
       IN IF r[authority].status = "ok"
          THEN [documents |-> (authority :> r[authority].doc) @@ before.documents,
                issues |-> before.issues]
          ELSE IF r[authority].status = "no_date"
          THEN [documents |-> (authority :> r[authority].doc) @@ before.documents,
                issues |-> Append(before.issues, unavailable)]
          ELSE [documents |-> before.documents,
                issues |-> Append(before.issues, unavailable)]

RECURSIVE latency_issues(_, _)
latency_issues(times_taken, order) ==
  IF order = <<>> THEN <<>>
  ELSE LET nickname == Head(order)
           median_time == median_of(times_taken)
           rest == latency_issues(times_taken, Tail(order))
       IN IF times_taken[nickname] > median_time * LATENCY_FACTOR
          THEN <<Issue("NOTICE", "LATENCY",
                       [authority |-> <<nickname>>, time_taken |-> seconds_str(times_taken[nickname]),
                        median_time |-> seconds_str(median_time),
                        authority_times |-> authority_times_str(times_taken, in_order(DOMAIN times_taken)),
                        to |-> <<nickname>>])>> \o rest
          ELSE rest

RECURSIVE clock_skew_issues(_, _)
clock_skew_issues(clock_skew, order) ==
  IF order = <<>> THEN <<>>
  ELSE LET nickname == Head(order)
           rest == clock_skew_issues(clock_skew, Tail(order))
       IN IF clock_skew[nickname] > SKEW_LIMIT
          THEN <<Issue("NOTICE", "CLOCK_SKEW",
                       [authority |-> <<nickname>>, difference |-> str(clock_skew[nickname]),
                        to |-> <<nickname>>])>> \o rest
          ELSE rest

\* _get_documents(label, resource) when the authorities answer r
get_documents(label, r) ==
  LET fetched == fetch_loop(label, r, VotingOrder)
      timed == {a \in Voting : r[a].status = "ok"}
      times_taken == [a \in timed |-> r[a].time_taken]
      clock_skew == [a \in timed |-> r[a].skew]
  IN IF label = "consensus" /\ timed # {}
     THEN [documents |-> fetched.documents,
           issues |-> fetched.issues \o latency_issues(times_taken, in_order(timed))
                        \o clock_skew_issues(clock_skew, in_order(timed))]
     ELSE fetched

\* ----------------------------------------------------------------- checks

\* the consensus with the greatest valid_after, the first one found on ties
RECURSIVE latest_from(_, _, _)
latest_from(docs, order, best) ==
  IF order = <<>> THEN best
  ELSE IF best = NoDoc \/ docs[Head(order)].valid_after > best.valid_after
       THEN latest_from(docs, Tail(order), docs[Head(order)])
       ELSE latest_from(docs, Tail(order), best)
latest_consensus_of(docs) == latest_from(docs, in_order(DOMAIN docs), NoDoc)

Returned(list) == [ok |-> TRUE, issues |-> list]
Raised == [ok |-> FALSE, issues |-> <<>>]

\* missing_latest_consensus with ">= 3" for "> 3"
missing_latest_consensus_from_3(latest_consensus, docs, vs) ==
  LET stale_authorities ==
        in_order({a \in DOMAIN docs : (now - docs[a].valid_after) > HOUR_SECONDS})
      runlevel == IF Len(stale_authorities) >= STALE_ERROR_ABOVE THEN "ERROR" ELSE "WARNING"
  IN IF stale_authorities # <<>>
     THEN Returned(<<Issue(runlevel, "MISSING_LATEST_CONSENSUS",
                           [authorities |-> join(stale_authorities), to |-> stale_authorities])>>)
     ELSE Returned(<<>>)

missing_latest_consensus(latest_consensus, docs, vs) ==
  LET stale_authorities ==
        in_order({a \in DOMAIN docs : (now - docs[a].valid_after) > HOUR_SECONDS})
      runlevel == IF Len(stale_authorities) > STALE_ERROR_ABOVE THEN "ERROR" ELSE "WARNING"
  IN IF stale_authorities # <<>>
     THEN Returned(<<Issue(runlevel, "MISSING_LATEST_CONSENSUS",
                           [authorities |-> join(stale_authorities), to |-> stale_authorities])>>)
     ELSE Returned(<<>>)

\* the loop of certificate_expiration with the widest window tested first
RECURSIVE certificate_loop_widest_first(_, _)
certificate_loop_widest_first(vs, order) ==
  IF order = <<>> THEN Returned(<<>>)
  ELSE LET authority == order[Len(order)]
           before == certificate_loop_widest_first(vs, SubSeq(order, 1, Len(order) - 1))
           vote == vs[authority]
           cert_expiration == vote.directory_authorities[1].expires
           expiration_label == <<authority, " ", ToString(cert_expiration)>>
           about(runlevel, duration) ==
             Issue(runlevel, "CERTIFICATE_ABOUT_TO_EXPIRE",
                   [duration |-> duration, authority |-> expiration_label, to |-> <<authority>>])
       IN IF ~before.ok THEN Raised
          ELSE IF vote.directory_authorities = <<>> THEN Raised
          ELSE IF (cert_expiration - now) <= 21 * DAY_SECONDS
          THEN Returned(Append(before.issues, about("NOTICE", <<"three", " ", "weeks">>)))
          ELSE IF (cert_expiration - now) <= 14 * DAY_SECONDS
          THEN Returned(Append(before.issues, about("WARNING", <<"two", " ", "weeks">>)))
          ELSE IF (cert_expiration - now) <= 7 * DAY_SECONDS
          THEN Returned(Append(before.issues, about("WARNING", <<"week">>)))
          ELSE before

\* IndexError of vote.directory_authorities[0] on a vote without an entry
RECURSIVE certificate_loop(_, _)
certificate_loop(vs, order) ==
  IF order = <<>> THEN Returned(<<>>)
  ELSE LET authority == order[Len(order)]
           before == certificate_loop(vs, SubSeq(order, 1, Len(order) - 1))
           vote == vs[authority]
           cert_expiration == vote.directory_authorities[1].expires
           expiration_label == <<authority, " ", ToString(cert_expiration)>>
           about(runlevel, duration) ==
             Issue(runlevel, "CERTIFICATE_ABOUT_TO_EXPIRE",
                   [duration |-> duration, authority |-> expiration_label, to |-> <<authority>>])
       IN IF ~before.ok THEN Raised
          ELSE IF vote.directory_authorities = <<>> THEN Raised
          ELSE IF (cert_expiration - now) <= 7 * DAY_SECONDS
          THEN Returned(Append(before.issues, about("WARNING", <<"week">>)))
          ELSE IF (cert_expiration - now) <= 14 * DAY_SECONDS
          THEN Returned(Append(before.issues, about("WARNING", <<"two", " ", "weeks">>)))
          ELSE IF (cert_expiration - now) <= 21 * DAY_SECONDS
          THEN Returned(Append(before.issues, about("NOTICE", <<"three", " ", "weeks">>)))
          ELSE before

certificate_expiration_widest_first(latest_consensus, docs, vs) ==
  certificate_loop_widest_first(vs, in_order(DOMAIN vs))

certificate_expiration(latest_consensus, docs, vs) == certificate_loop(vs, in_order(DOMAIN vs))

shared_random_present(latest_consensus, docs, vs) ==
  Returned(
    (IF latest_consensus.shared_randomness_current_value = "None"
     THEN <<Issue("ERROR", "CURRENT_SHARED_RANDOM_MISSING", Empty)>> ELSE <<>>)
    \o
    (IF latest_consensus.shared_randomness_previous_value = "None"
     THEN <<Issue("ERROR", "PREVIOUS_SHARED_RANDOM_MISSING", Empty)>> ELSE <<>>))

\* the checkers of run_checks that this model evaluates, in the order of the
\* source's checker_functions
checker_functions == <<"missing_latest_consensus", "certificate_expiration", "shared_random_present">>

checker(name, latest_consensus, docs, vs) ==
  CASE name = "missing_latest_consensus" -> missing_latest_consensus(latest_consensus, docs, vs)
    [] name = "certificate_expiration" -> certificate_expiration(latest_consensus, docs, vs)
    [] OTHER -> shared_random_present(latest_consensus, docs, vs)

\* the loop over checker_functions: an exception of a checker leaves the
\* loop and run_checks (raised names the checker)
RECURSIVE checks_loop(_, _, _, _)
checks_loop(n, latest_consensus, docs, vs) ==
  IF n = 0 THEN [ok |-> TRUE, all_issues |-> <<>>, raised |-> "none"]
  ELSE LET before == checks_loop(n - 1, latest_consensus, docs, vs)
           found == checker(checker_functions[n], latest_consensus, docs, vs)
       IN IF ~before.ok THEN before
          ELSE IF ~found.ok
          THEN [ok |-> FALSE, all_issues |-> before.all_issues, raised |-> checker_functions[n]]
          ELSE [ok |-> TRUE, all_issues |-> before.all_issues \o found.issues, raised |-> "none"]

run_checks(docs, vs) ==
  checks_loop(Len(checker_functions), latest_consensus_of(docs), docs, vs)

\* ------------------------------------------------------------------- main

\* the first loop of main over issues: stops at the first issue that is not
\* rate limited; [ok |-> FALSE] when is_rate_limited raised
RECURSIVE suppress_loop(_, _, _)
suppress_loop(list, store, i) ==
  IF i > Len(list) THEN [ok |-> TRUE, is_all_suppressed |-> TRUE, limited |-> {}]
  ELSE LET r == is_rate_limited(list[i], store)
           rest == suppress_loop(list, store, i + 1)
       IN IF ~r.ok THEN [ok |-> FALSE, is_all_suppressed |-> TRUE, limited |-> {}]
          ELSE IF ~r.value THEN [ok |-> TRUE, is_all_suppressed |-> FALSE, limited |-> {}]
          ELSE [ok |-> rest.ok, is_all_suppressed |-> rest.is_all_suppressed,
                limited |-> {i} \cup rest.limited]

\* the second loop, had it skipped the issues that are rate limited
RECURSIVE notice_loop_surviving(_, _, _)
notice_loop_surviving(list, store, n) ==
  IF n = 0 THEN [ok |-> TRUE, store |-> store, destinations |-> Empty, noticed |-> 0]
  ELSE LET before == notice_loop_surviving(list, store, n - 1)
           r == rate_limit_notice(list[n], before.store)
       IN IF ~before.ok THEN before
          ELSE IF ~r.ok THEN [before EXCEPT !.ok = FALSE]
          ELSE IF is_rate_limited(list[n], store).value
          THEN [before EXCEPT !.noticed = n]
          ELSE [ok |-> TRUE, store |-> r.store,
                destinations |-> get_destinations(list[n]) @@ before.destinations,
                noticed |-> n]

\* the second loop: rate_limit_notice and destinations.update for the first
\* n issues; noticed counts the issues done before an exception
RECURSIVE notice_loop(_, _, _)
notice_loop(list, store, n) ==
  IF n = 0 THEN [ok |-> TRUE, store |-> store, destinations |-> Empty, noticed |-> 0]
  ELSE LET before == notice_loop(list, store, n - 1)
           r == rate_limit_notice(list[n], before.store)
       IN IF ~before.ok THEN before
          ELSE IF ~r.ok THEN [before EXCEPT !.ok = FALSE]
          ELSE [ok |-> TRUE, store |-> r.store,
                destinations |-> get_destinations(list[n]) @@ before.destinations,
                noticed |-> n]

Message(subject, body, cc, bcc, to) ==
  [subject |-> subject, body |-> body, cc |-> cc, bcc |-> bcc, to |-> to]

body_of(list) == [i \in DOMAIN list |-> issue_str(list[i])]
announce_of(list) == [i \in DOMAIN list |-> <<"[consensus-health]", " ">> \o issue_str(list[i])]
cc_of(dests) == {dests[a].address : a \in {x \in DOMAIN dests : ~dests[x].none /\ ~dests[x].bcc}}
bcc_of(dests) == {dests[a].address : a \in {x \in DOMAIN dests : ~dests[x].none /\ dests[x].bcc}}

\* a notification built from the issues that are not rate limited only
RECURSIVE surviving(_)
surviving(list) ==
  IF list = <<>> THEN <<>>
  ELSE LET before == surviving(SubSeq(list, 1, Len(list) - 1))
       IN IF Len(list) \in limited THEN before ELSE Append(before, list[Len(list)])
notification_surviving(list, dests) ==
  Message(EMAIL_SUBJECT, body_of(surviving(list)), cc_of(dests), bcc_of(dests), {})

notification(list, dests) == Message(EMAIL_SUBJECT, body_of(list), cc_of(dests), bcc_of(dests), {})
announcement(list) == Message("Announce or", announce_of(list), {}, {}, {"tor-misc@commit.noreply.org"})
script_error == Message("Script Error", <<<<"consensus_health_checker.py", " ", "failed">>>>, {}, {}, {"ERROR_ADDRESS"})

\* seconds between the start of one cron cycle and the next
Deltas == {16199, 16200, 88200}
Init ==
  /\ CONFIG \in Configs
  /\ last_notified = Empty
  /\ start_notified = Empty
  /\ now = StartTime
  /\ cycle = 1
  /\ pc = "get_consensuses"
  /\ replies = [consensus |-> Empty, vote |-> Empty]
  /\ consensuses = Empty
  /\ votes = Empty
  /\ issues = <<>>
  /\ is_all_suppressed = TRUE
  /\ destinations = Empty
  /\ sent = <<>>
  /\ limited = {}
  /\ noticed = 0
  /\ failure = "none"
  /\ report = "none"

\* consensuses, consensus_fetching_issues = get_consensuses()
GetConsensuses ==
  /\ pc = "get_consensuses"
  /\ \E r \in Answers("consensus", now) :
       LET got == get_documents("consensus", r)
       IN /\ replies' = [replies EXCEPT !.consensus = r]
          /\ consensuses' = got.documents
          /\ issues' = got.issues
  /\ pc' = "get_votes"
  /\ UNCHANGED <<CONFIG, last_notified, now, cycle, votes, is_all_suppressed,
                 destinations, sent, limited, noticed, failure, report, start_notified>>

\* votes, vote_fetching_issues = get_votes(); issues = the two lists
GetVotes ==
  /\ pc = "get_votes"
  /\ \E r \in Answers("vote", now) :
       LET got == get_documents("vote", r)
       IN /\ replies' = [replies EXCEPT !.vote = r]
          /\ votes' = got.documents
          /\ issues' = issues \o got.issues
  /\ pc' = "run_checks"
  /\ UNCHANGED <<CONFIG, last_notified, now, cycle, consensuses, is_all_suppressed,
                 destinations, sent, limited, noticed, failure, report, start_notified>>

\* RunChecks with "if consensuses:" for "if consensuses and votes:"
RunChecks_without_votes_test ==
  /\ pc = "run_checks"
  /\ IF DOMAIN consensuses # {}
     THEN LET r == run_checks(consensuses, votes)
          IN IF r.ok
             THEN /\ issues' = issues \o r.all_issues
                  /\ pc' = "suppress"
                  /\ failure' = failure
             ELSE /\ issues' = issues
                  /\ pc' = "failed"
                  /\ failure' = r.raised
     ELSE /\ issues' = issues
          /\ pc' = "suppress"
          /\ failure' = failure
  /\ UNCHANGED <<CONFIG, last_notified, now, cycle, replies, consensuses, votes,
                 is_all_suppressed, destinations, sent, limited, noticed, report, start_notified>>

\* if consensuses and votes: issues += run_checks(consensuses, votes)
RunChecks ==
  /\ pc = "run_checks"
  /\ IF DOMAIN consensuses # {} /\ DOMAIN votes # {}
     THEN LET r == run_checks(consensuses, votes)
          IN IF r.ok
             THEN /\ issues' = issues \o r.all_issues
                  /\ pc' = "suppress"
                  /\ failure' = failure
             ELSE /\ issues' = issues
                  /\ pc' = "failed"
                  /\ failure' = r.raised
     ELSE /\ issues' = issues
          /\ pc' = "suppress"
          /\ failure' = failure
  /\ UNCHANGED <<CONFIG, last_notified, now, cycle, replies, consensuses, votes,
                 is_all_suppressed, destinations, sent, limited, noticed, report, start_notified>>

\* for issue in issues: if not is_rate_limited(issue): ... break
Suppress ==
  /\ pc = "suppress"
  /\ LET r == suppress_loop(issues, last_notified, 1)
     IN IF r.ok
        THEN /\ is_all_suppressed' = r.is_all_suppressed
             /\ limited' = r.limited
             /\ pc' = "notify"
             /\ failure' = failure
        ELSE /\ is_all_suppressed' = is_all_suppressed
             /\ limited' = limited
             /\ pc' = "failed"
             /\ failure' = "is_rate_limited"
  /\ UNCHANGED <<CONFIG, last_notified, now, cycle, replies, consensuses, votes, issues,
                 destinations, sent, noticed, report, start_notified>>

\* if not is_all_suppressed: record every issue, merge the destinations and
\* send the two messages; util.send may raise on the first or on the second
Notify ==
  /\ pc = "notify"
  /\ ~is_all_suppressed
  /\ LET r == notice_loop(issues, last_notified, Len(issues))
     IN /\ last_notified' = r.store
        /\ noticed' = r.noticed
        /\ IF ~r.ok
           THEN /\ pc' = "failed"
                /\ failure' = "rate_limit_notice"
                /\ UNCHANGED <<destinations, sent>>
           ELSE /\ destinations' = r.destinations
                /\ \E raises \in {0, 1, 2} :
                     /\ sent' = IF raises = 1
                                THEN <<notification(issues, r.destinations)>>
                                ELSE <<notification(issues, r.destinations), announcement(issues)>>
                     /\ pc' = IF raises = 0 THEN "done" ELSE "failed"
                     /\ failure' = IF raises = 0 THEN failure ELSE "send"
  /\ UNCHANGED <<CONFIG, now, cycle, replies, consensuses, votes, issues,
                 is_all_suppressed, limited, report, start_notified>>

\* else: log "All %i issues were suppressed" or "No issues found."
NothingToSend ==
  /\ pc = "notify"
  /\ is_all_suppressed
  /\ report' = IF issues # <<>> THEN "All issues were suppressed" ELSE "No issues found"
  /\ pc' = "done"
  /\ UNCHANGED <<CONFIG, last_notified, now, cycle, replies, consensuses, votes, issues,
                 is_all_suppressed, destinations, sent, limited, noticed, failure, start_notified>>

\* the except of the entry point: the traceback goes to util.ERROR_ADDRESS
ScriptError ==
  /\ pc = "failed"
  /\ sent' = Append(sent, script_error)
  /\ pc' = "done"
  /\ UNCHANGED <<CONFIG, last_notified, now, cycle, replies, consensuses, votes, issues,
                 is_all_suppressed, destinations, limited, noticed, failure, report, start_notified>>

\* cron starts the next run: the configuration files are loaded again and
\* last_notified is read from the file the last run saved
NextCycle ==
  /\ pc = "done"
  /\ cycle < MaxCycles
  /\ cycle' = cycle + 1
  /\ \E d \in Deltas : now' = now + d
  /\ start_notified' = last_notified
  /\ pc' = "get_consensuses"
  /\ replies' = [consensus |-> Empty, vote |-> Empty]
  /\ consensuses' = Empty
  /\ votes' = Empty
  /\ issues' = <<>>
  /\ is_all_suppressed' = TRUE
  /\ destinations' = Empty
  /\ sent' = <<>>
  /\ limited' = {}
  /\ noticed' = 0
  /\ failure' = "none"
  /\ report' = "none"
  /\ UNCHANGED <<CONFIG, last_notified>>

Next ==
  \/ GetConsensuses
  \/ GetVotes
  \/ RunChecks
  \/ Suppress
  \/ Notify
  \/ NothingToSend
  \/ ScriptError
  \/ NextCycle

Spec == Init /\ [][Next]_vars

\* ------------------------------------------- suppression, call by call

\* Issue(Runlevel.NOTICE, 'TOO_MANY_UNMEASURED_RELAYS', ...) of unmeasured_relays
too_many_unmeasured(authority, unmeasured, total) ==
  Issue("NOTICE", "TOO_MANY_UNMEASURED_RELAYS",
        [authority |-> <<authority>>, unmeasured |-> str(unmeasured), total |-> str(total),
         percentage |-> str((100 * unmeasured) \div total), to |-> <<authority>>])

\* Issue(Runlevel.NOTICE, 'CLOCK_SKEW', ...) of _get_documents
clock_skewed(nickname, difference) ==
  Issue("NOTICE", "CLOCK_SKEW",
        [authority |-> <<nickname>>, difference |-> str(difference), to |-> <<nickname>>])

\* the issues handed to is_rate_limited and rate_limit_notice
HandedIssues ==
  { too_many_unmeasured("moria1", 10, 100),
    too_many_unmeasured("moria1", 25, 100),
    too_many_unmeasured("dizum", 10, 100),
    clock_skewed("moria1", 20),
    clock_skewed("dizum", 30),
    Issue("WARNING", "CERTIFICATE_ABOUT_TO_EXPIRE",
          [duration |-> <<"week">>, authority |-> <<"moria1", " ", "1572518400">>, to |-> <<"moria1">>]),
    Issue("WARNING", "MISSING_LATEST_CONSENSUS",
          [authorities |-> <<"moria1">>, to |-> <<"moria1">>]) }

\* calls of is_rate_limited in one run of the calls
MaxCalls == 2

\* last_notified.cfg as found by a run: empty, or one entry under the key of
\* an issue, written two hours earlier or holding text that is no number
LoadedStores ==
  {Empty} \cup
  { (get_suppression_key(i).key :> v) :
      i \in {x \in HandedIssues : get_suppression_key(x).ok},
      v \in {Num(StartTime - 2 * HOUR_SECONDS), Junk} }

InitSuppression ==
  /\ CONFIG \in Configs
  /\ last_notified \in LoadedStores
  /\ start_notified = last_notified
  /\ now = StartTime
  /\ cycle = 0
  /\ pc = "loaded"
  /\ replies = [consensus |-> Empty, vote |-> Empty]
  /\ consensuses = Empty
  /\ votes = Empty
  /\ issues = <<>>
  /\ is_all_suppressed = TRUE
  /\ destinations = Empty
  /\ sent = <<>>
  /\ limited = {}
  /\ noticed = 0
  /\ failure = "none"
  /\ report = "none"

\* rate_limit_notice(issue), as the first call
RateLimitNotice ==
  /\ pc = "loaded"
  /\ \E issue \in HandedIssues :
       LET r == rate_limit_notice(issue, last_notified)
       IN /\ issues' = <<issue>>
          /\ last_notified' = r.store
          /\ noticed' = IF r.ok THEN 1 ELSE 0
          /\ pc' = IF r.ok THEN "noticed" ELSE "failed"
          /\ failure' = IF r.ok THEN failure ELSE "rate_limit_notice"
  /\ UNCHANGED <<CONFIG, now, cycle, replies, consensuses, votes, is_all_suppressed,
                 destinations, sent, limited, report, start_notified>>

\* time passes between rate_limit_notice and the calls of is_rate_limited
Elapse ==
  /\ pc = "noticed"
  /\ pc' = "elapsed"
  /\ cycle' = cycle + 1
  /\ \E d \in Deltas : now' = now + d
  /\ UNCHANGED <<CONFIG, last_notified, replies, consensuses, votes, issues,
                 is_all_suppressed, destinations, sent, limited, noticed, failure,
                 report, start_notified>>

\* is_rate_limited(issue); limited collects the calls that returned True
IsRateLimited ==
  /\ pc \in {"loaded", "noticed", "elapsed", "asked"}
  /\ Len(issues) - noticed < MaxCalls
  /\ \E issue \in HandedIssues :
       LET r == is_rate_limited(issue, last_notified)
       IN /\ issues' = Append(issues, issue)
          /\ limited' = IF r.ok /\ r.value THEN limited \cup {Len(issues) + 1} ELSE limited
          /\ pc' = IF r.ok THEN "asked" ELSE "failed"
          /\ failure' = IF r.ok THEN failure ELSE "is_rate_limited"
  /\ UNCHANGED <<CONFIG, last_notified, now, cycle, replies, consensuses, votes,
                 is_all_suppressed, destinations, sent, noticed, report, start_notified>>

NextSuppression ==
  \/ RateLimitNotice
  \/ Elapse
  \/ IsRateLimited

SpecSuppression == InitSuppression /\ [][NextSuppression]_vars

\* ------------------------------------------------ checkers, call by call

\* datetime.datetime.utcnow().hour at the time t
utc_hour(t) == (t \div HOUR_SECONDS) % 24

\* vote.directory_authorities[0].shared_randomness_commitments
commitments_of(vote) == vote.directory_authorities[1].shared_randomness_commitments
Commitment(identity, commit, reveal) == [identity |-> identity, commit |-> commit, reveal |-> reveal]
v3ident_of(authority) == DIRECTORY_AUTHORITIES[authority].v3ident
own_entries(vs, authority) ==
  SelectSeq(commitments_of(vs[authority]), LAMBDA c : c.identity = v3ident_of(authority))

\* self_commitments after the first loop (every vote has an own entry)
self_commitments(vs) ==
  [v \in {v3ident_of(a) : a \in DOMAIN vs} |->
     LET a == CHOOSE x \in DOMAIN vs : v3ident_of(x) = v
     IN own_entries(vs, a)[1].commit]

\* the inner loop over the commitments of one vote
RECURSIVE commitment_issues_of(_, _, _)
commitment_issues_of(authority, entries, self) ==
  IF entries = <<>> THEN <<>>
  ELSE LET commitment == Head(entries)
           rest == commitment_issues_of(authority, Tail(entries), self)
       IN IF commitment.identity \notin DOMAIN self THEN rest
          ELSE IF commitment.commit # self[commitment.identity]
          THEN <<Issue("WARNING", "SHARED_RANDOM_COMMITMENT_MISMATCH",
                       [authority |-> <<authority>>, their_v3ident |-> <<commitment.identity>>,
                        our_value |-> <<commitment.commit>>,
                        their_value |-> <<self[commitment.identity]>>,
                        to |-> <<authority>>])>> \o rest
          ELSE rest

\* the local list 'issues' at the end of the second loop
RECURSIVE commitment_issues(_, _)
commitment_issues(vs, order) ==
  IF order = <<>> THEN <<>>
  ELSE commitment_issues_of(Head(order), commitments_of(vs[Head(order)]), self_commitments(vs))
       \o commitment_issues(vs, Tail(order))

\* The function ends after its second loop without a return statement, so
\* the list it has built is dropped and the caller gets None; Raised is the
\* IndexError of [...][0] for a vote without an entry of its own authority.
shared_random_commit_partitioning(latest_consensus, docs, vs) ==
  IF utc_hour(now) < 8 \/ utc_hour(now) >= 12 THEN Returned(<<>>)
  ELSE IF \E a \in DOMAIN vs : own_entries(vs, a) = <<>> THEN Raised
  ELSE LET issues_built == commitment_issues(vs, in_order(DOMAIN vs))
       IN Returned(<<>>)

\* our_reveals of one vote
own_reveals(vs, authority) ==
  [i \in DOMAIN own_entries(vs, authority) |-> own_entries(vs, authority)[i].reveal]

\* the first loop: an authority without or with several reveals of its own
RECURSIVE reveal_issues_own(_, _)
reveal_issues_own(vs, order) ==
  IF order = <<>> THEN <<>>
  ELSE LET authority == Head(order)
           our_reveals == own_reveals(vs, authority)
       IN (IF our_reveals = <<>>
           THEN <<Issue("WARNING", "SHARED_RANDOM_NO_REVEAL",
                        [authority |-> <<authority>>, to |-> <<authority>>])>>
           ELSE IF Len(our_reveals) > 1
           THEN <<Issue("WARNING", "SHARED_RANDOM_MULTIPLE_REVEAL",
                        [authority |-> <<authority>>, count |-> str(Len(our_reveals)),
                         to |-> <<authority>>])>>
           ELSE <<>>)
          \o reveal_issues_own(vs, Tail(order))

\* self_reveals after the first loop: the authorities with exactly one
\* reveal of their own
self_reveals(vs) ==
  [v \in {v3ident_of(a) : a \in {x \in DOMAIN vs : Len(own_reveals(vs, x)) = 1}} |->
     LET a == CHOOSE x \in DOMAIN vs : v3ident_of(x) = v
     IN own_reveals(vs, a)[1]]

\* identities in the order self_reveals.items() gives them
IdentityIteration == <<"V_moria1", "V_dizum">>

\* the inner loop over self_reveals for one vote: the test of line 913
\* takes every vote with a match, so that of line 915 is never reached
RECURSIVE reveal_issues_of(_, _, _, _)
reveal_issues_of(authority, commitments, self, order) ==
  IF order = <<>> THEN <<>>
  ELSE LET v3ident == Head(order)
           rest == reveal_issues_of(authority, commitments, self, Tail(order))
       IN IF v3ident \notin DOMAIN self THEN rest
          ELSE LET matches == SelectSeq(commitments, LAMBDA c : c.identity = v3ident)
               IN IF Len(matches) = 0
                  THEN <<Issue("WARNING", "SHARED_RANDOM_REVEAL_MISSING",
                               [authority |-> <<authority>>, their_v3ident |-> <<v3ident>>,
                                their_value |-> <<self[v3ident]>>, to |-> <<authority>>])>> \o rest
                  ELSE IF Len(matches) > 0
                  THEN <<Issue("WARNING", "SHARED_RANDOM_REVEAL_DUPLICATED",
                               [authority |-> <<authority>>, their_v3ident |-> <<v3ident>>,
                                to |-> <<authority>>])>> \o rest
                  ELSE IF matches[1].reveal # self[v3ident]
                  THEN <<Issue("WARNING", "SHARED_RANDOM_REVEAL_MISMATCH",
                               [authority |-> <<authority>>, their_v3ident |-> <<v3ident>>,
                                our_value |-> <<matches[1].reveal>>,
                                their_value |-> <<self[v3ident]>>, to |-> <<authority>>])>> \o rest
                  ELSE rest

\* the second loop
RECURSIVE reveal_issues_peer(_, _)
reveal_issues_peer(vs, order) ==
  IF order = <<>> THEN <<>>
  ELSE reveal_issues_of(Head(order), commitments_of(vs[Head(order)]), self_reveals(vs),
                        IdentityIteration)
       \o reveal_issues_peer(vs, Tail(order))

\* Like the commit check, the function ends after its second loop without a
\* return statement: the list it has built is dropped, the caller gets None.
shared_random_reveal_partitioning(latest_consensus, docs, vs) ==
  IF utc_hour(now) < 20 THEN Returned(<<>>)
  ELSE LET issues_built == reveal_issues_own(vs, in_order(DOMAIN vs))
                           \o reveal_issues_peer(vs, in_order(DOMAIN vs))
       IN Returned(<<>>)

\* fingerprints of relays, in the order a set of them is iterated
FingerprintOrder == <<"X", "Y">>
Fingerprints == Range(FingerprintOrder)

\* vote.routers and latest_consensus.routers: fingerprint -> whether
\* Flag.BADEXIT is in desc.flags
flagged_by(vote) == {fp \in DOMAIN vote.routers : vote.routers[fp]}

\* bad_exits: the authorities that flag some relay -> the relays they flag
bad_exits_of(vs) ==
  [a \in {x \in DOMAIN vs : flagged_by(vs[x]) # {}} |-> flagged_by(vs[a])]

\* notice_for with the two sides exchanged
notice_for_consensus_side(has_flag_in_consensus, with_flag, without_flag) ==
  IF has_flag_in_consensus THEN with_flag ELSE without_flag

notice_for(has_flag_in_consensus, with_flag, without_flag) ==
  IF has_flag_in_consensus THEN without_flag ELSE with_flag

\* the body of the loop over disagreed_bad_exits, for one fingerprint
bad_exit_issues_of(fingerprint, bad_exits, latest_consensus, vs) ==
  LET voting_authorities == DOMAIN bad_exits
      with_flag == in_order({a \in voting_authorities : fingerprint \in bad_exits[a]})
      others == voting_authorities \ Range(with_flag)
      without_flag == in_order({a \in others : fingerprint \in DOMAIN vs[a].routers})
      not_in_vote == in_order({a \in others : fingerprint \notin DOMAIN vs[a].routers})
      counts ==
        <<"with", " ", "flag:", " ">> \o join(with_flag)
        \o (IF without_flag # <<>>
            THEN <<",", " ", "without", " ", "flag:", " ">> \o join(without_flag) ELSE <<>>)
        \o (IF not_in_vote # <<>>
            THEN <<",", " ", "not", " ", "in", " ", "vote:", " ">> \o join(not_in_vote) ELSE <<>>)
  IN IF without_flag = <<>> THEN <<>>
     ELSE IF fingerprint \notin DOMAIN latest_consensus.routers THEN <<>>
     ELSE <<Issue("NOTICE", "BADEXIT_OUT_OF_SYNC",
                  [fingerprint |-> <<fingerprint>>, counts |-> counts,
                   to |-> notice_for(latest_consensus.routers[fingerprint], with_flag, without_flag)])>>

RECURSIVE bad_exit_issues(_, _, _, _)
bad_exit_issues(order, bad_exits, latest_consensus, vs) ==
  IF order = <<>> THEN <<>>
  ELSE bad_exit_issues_of(Head(order), bad_exits, latest_consensus, vs)
       \o bad_exit_issues(Tail(order), bad_exits, latest_consensus, vs)

bad_exits_in_sync(latest_consensus, docs, vs) ==
  LET bad_exits == bad_exits_of(vs)
      agreed_bad_exits == {fp \in Fingerprints : \A a \in DOMAIN bad_exits : fp \in bad_exits[a]}
      disagreed_bad_exits == (UNION {bad_exits[a] : a \in DOMAIN bad_exits}) \ agreed_bad_exits
  IN IF DOMAIN bad_exits = {} THEN Returned(<<>>)
     ELSE Returned(bad_exit_issues(SelectSeq(FingerprintOrder, LAMBDA fp : fp \in disagreed_bad_exits),
                                   bad_exits, latest_consensus, vs))

\* the identities a signature may carry, in the order a set of them is iterated
IdentityOrder == <<"V_moria1", "V_dizum", "V_unknown">>

\* a set of nicknames and identities as a list: nicknames, then identities
names_in_order(S) ==
  in_order(S) \o SelectSeq(IdentityOrder, LAMBDA v : v \in S)

\* the inner loop of has_all_signatures, with no authority ever matching
missing_authority_untranslated(missing_signature) == missing_signature

\* the inner loop of has_all_signatures: the nickname of the first authority
\* of the registry with this v3ident, the v3ident itself when there is none
missing_authority(missing_signature) ==
  LET matching == SelectSeq(AuthorityOrder,
                            LAMBDA a : DIRECTORY_AUTHORITIES[a].v3ident = missing_signature)
  IN IF matching # <<>> THEN DIRECTORY_AUTHORITIES[matching[1]].nickname
     ELSE missing_signature

RECURSIVE signature_issues(_, _)
signature_issues(docs, order) ==
  IF order = <<>> THEN <<>>
  ELSE LET consensus_of == order[Len(order)]
           before == signature_issues(docs, SubSeq(order, 1, Len(order) - 1))
           voting_authorities ==
             {DIRECTORY_AUTHORITIES[a].v3ident : a \in {x \in DOMAIN DIRECTORY_AUTHORITIES :
                                                        DIRECTORY_AUTHORITIES[x].v3ident # NoV3ident}}
           signing_authorities == docs[consensus_of].signatures
           missing_authorities ==
             names_in_order({missing_authority(m) : m \in voting_authorities \ signing_authorities})
       IN IF missing_authorities # <<>>
          THEN Append(before,
                      Issue("NOTICE", "MISSING_SIGNATURE",
                            [consensus_of |-> <<consensus_of>>,
                             authorities |-> join(missing_authorities),
                             to |-> missing_authorities]))
          ELSE before

has_all_signatures(latest_consensus, docs, vs) ==
  Returned(signature_issues(docs, in_order(DOMAIN docs)))

\* UTC hours at which the checkers are called: 7, 8, 9, 11, 12, 14, 19, 20
\* (StartTime is 10:40 UTC)
HourShifts == {-3, -2, -1, 1, 2, 4, 9, 10}
CheckTimes == {StartTime + HOUR_SECONDS * k : k \in HourShifts}

\* votes with the given lists of commitments
VoteWithCommitments(entries) ==
  [directory_authorities |-> <<[shared_randomness_commitments |-> entries]>>]
SeqsUpTo(S, n) == UNION {[1..k -> S] : k \in 0..n}
MaxCommitments == 2
CommitEntries ==
  {Commitment(v, c, "None") : v \in {"V_moria1", "V_dizum"}, c \in {"c1", "c2"}}
CommitVotes ==
  LET lists == SeqsUpTo(CommitEntries, MaxCommitments)
  IN {("moria1" :> VoteWithCommitments(a)) : a \in lists} \cup
     {("moria1" :> VoteWithCommitments(a)) @@ ("dizum" :> VoteWithCommitments(b)) :
        a \in lists, b \in lists}

InitCheckers ==
  /\ CONFIG = ConfigFull
  /\ last_notified = Empty
  /\ start_notified = Empty
  /\ now \in CheckTimes
  /\ cycle = 0
  /\ pc = "call"
  /\ replies = [consensus |-> Empty, vote |-> Empty]
  /\ consensuses = Empty
  /\ votes = Empty
  /\ issues = <<>>
  /\ is_all_suppressed = TRUE
  /\ destinations = Empty
  /\ sent = <<>>
  /\ limited = {}
  /\ noticed = 0
  /\ failure = "none"
  /\ report = "none"

\* issues = shared_random_commit_partitioning(latest_consensus, consensuses,
\* votes); pc names the checker called, failure names it when it raised
RunSharedRandomCommitPartitioning ==
  /\ pc = "call"
  /\ \E vs \in CommitVotes :
       LET result == shared_random_commit_partitioning(NoDoc, Empty, vs)
       IN /\ votes' = vs
          /\ issues' = result.issues
          /\ failure' = IF result.ok THEN failure ELSE "shared_random_commit_partitioning"
  /\ pc' = "shared_random_commit_partitioning"
  /\ UNCHANGED <<CONFIG, last_notified, now, cycle, replies, consensuses, is_all_suppressed,
                 destinations, sent, limited, noticed, report, start_notified>>

\* consensuses of up to five authorities, valid since half an hour, exactly
\* an hour, an hour and a second, or two hours
ConsensusAges == {1800, 3600, 3601, 7200}
FiveAuthorities == {"moria1", "dizum", "gabelmoo", "maatuska", "longclaw"}
AgedConsensuses(t) ==
  UNION {[S -> {[valid_after |-> t - age] : age \in ConsensusAges}] :
           S \in {T \in SUBSET FiveAuthorities : Cardinality(T) \in {1, 2, 5}}}

RunMissingLatestConsensus ==
  /\ pc = "call"
  /\ \E docs \in AgedConsensuses(now) :
       LET result == missing_latest_consensus(latest_consensus_of(docs), docs, Empty)
       IN /\ consensuses' = docs
          /\ issues' = result.issues
          /\ failure' = IF result.ok THEN failure ELSE "missing_latest_consensus"
  /\ pc' = "missing_latest_consensus"
  /\ UNCHANGED <<CONFIG, last_notified, now, cycle, replies, votes, is_all_suppressed,
                 destinations, sent, limited, noticed, report, start_notified>>

\* votes whose certificate expires so many seconds after the call (a day
\* ago, in 5, 7, 10, 14, 20, 21 and 30 days, and a second after each limit),
\* or without the entry of their authority
ExpiresIn ==
  {-DAY_SECONDS, 5 * DAY_SECONDS, 7 * DAY_SECONDS, 7 * DAY_SECONDS + 1, 10 * DAY_SECONDS,
   14 * DAY_SECONDS, 14 * DAY_SECONDS + 1, 20 * DAY_SECONDS, 21 * DAY_SECONDS,
   21 * DAY_SECONDS + 1, 30 * DAY_SECONDS}
CertifiedVotes(t) ==
  LET one == {[directory_authorities |-> <<[expires |-> t + d]>>] : d \in ExpiresIn}
                \cup {VoteNoAuthority}
  IN UNION {[S -> one] : S \in (SUBSET Voting) \ {{}}}

RunCertificateExpiration ==
  /\ pc = "call"
  /\ \E vs \in CertifiedVotes(now) :
       LET result == certificate_expiration(NoDoc, Empty, vs)
       IN /\ votes' = vs
          /\ issues' = result.issues
          /\ failure' = IF result.ok THEN failure ELSE "certificate_expiration"
  /\ pc' = "certificate_expiration"
  /\ UNCHANGED <<CONFIG, last_notified, now, cycle, replies, consensuses, is_all_suppressed,
                 destinations, sent, limited, noticed, report, start_notified>>

\* votes of three authorities, each listing any of the relays, with or
\* without BadExit; the latest consensus lists X or not, and Y without it
RouterLists(fps) == UNION {[S -> BOOLEAN] : S \in SUBSET fps}
ThreeAuthorities == {"moria1", "dizum", "gabelmoo"}
RouterVotes == [ThreeAuthorities -> {[routers |-> f] : f \in RouterLists(Fingerprints)}]
RouterConsensuses(t) ==
  {[valid_after |-> t - 1800, routers |-> f @@ ("Y" :> FALSE)] : f \in RouterLists({"X"})}

RunBadExitsInSync ==
  /\ pc = "call"
  /\ \E vs \in RouterVotes, consensus \in RouterConsensuses(now) :
       LET docs == ("moria1" :> consensus)
           result == bad_exits_in_sync(latest_consensus_of(docs), docs, vs)
       IN /\ consensuses' = docs
          /\ votes' = vs
          /\ issues' = result.issues
          /\ failure' = IF result.ok THEN failure ELSE "bad_exits_in_sync"
  /\ pc' = "bad_exits_in_sync"
  /\ UNCHANGED <<CONFIG, last_notified, now, cycle, replies, is_all_suppressed,
                 destinations, sent, limited, noticed, report, start_notified>>

\* consensuses signed by any of the two voting identities of the registry
\* and an identity the registry does not know
SignedConsensuses(t) ==
  UNION {[S -> {[valid_after |-> t - 1800, signatures |-> ids] : ids \in SUBSET Range(IdentityOrder)}] :
           S \in (SUBSET Voting) \ {{}}}

RunHasAllSignatures ==
  /\ pc = "call"
  /\ \E docs \in SignedConsensuses(now) :
       LET result == has_all_signatures(latest_consensus_of(docs), docs, Empty)
       IN /\ consensuses' = docs
          /\ issues' = result.issues
          /\ failure' = IF result.ok THEN failure ELSE "has_all_signatures"
  /\ pc' = "has_all_signatures"
  /\ UNCHANGED <<CONFIG, last_notified, now, cycle, replies, votes, is_all_suppressed,
                 destinations, sent, limited, noticed, report, start_notified>>

\* votes of moria1 alone or of moria1 and dizum, each with up to
\* MaxCommitments entries carrying a reveal
RevealEntries ==
  {Commitment(v, "c1", r) : v \in {"V_moria1", "V_dizum"}, r \in {"r1", "r2"}}
RevealVotes ==
  LET lists == SeqsUpTo(RevealEntries, MaxCommitments)
  IN {("moria1" :> VoteWithCommitments(a)) : a \in lists} \cup
     {("moria1" :> VoteWithCommitments(a)) @@ ("dizum" :> VoteWithCommitments(b)) :
        a \in lists, b \in lists}

RunSharedRandomRevealPartitioning ==
  /\ pc = "call"
  /\ \E vs \in RevealVotes :
       LET result == shared_random_reveal_partitioning(NoDoc, Empty, vs)
       IN /\ votes' = vs
          /\ issues' = result.issues
          /\ failure' = IF result.ok THEN failure ELSE "shared_random_reveal_partitioning"
  /\ pc' = "shared_random_reveal_partitioning"
  /\ UNCHANGED <<CONFIG, last_notified, now, cycle, replies, consensuses, is_all_suppressed,
                 destinations, sent, limited, noticed, report, start_notified>>

NextCheckers ==
  \/ RunSharedRandomRevealPartitioning
  \/ RunHasAllSignatures
  \/ RunBadExitsInSync
  \/ RunCertificateExpiration
  \/ RunMissingLatestConsensus
  \/ RunSharedRandomCommitPartitioning

SpecCheckers == InitCheckers /\ [][NextCheckers]_vars

\* ----------------------------------------------------------------- claims

Absent == [digits |-> FALSE, n |-> -1]
Entry(store, k) == IF k \in DOMAIN store THEN store[k] ELSE Absent
key_of(i) == get_suppression_key(issues[i]).key
hours_of(i) == get_suppression_duration(issues[i])
\* the issues the first loop of main called is_rate_limited for, once it is over
Evaluated(i) == i \in limited \/ (~is_all_suppressed /\ i = Cardinality(limited) + 1)
Notifications == {m \in Range(sent) : m.subject = EMAIL_SUBJECT}
Completed == pc = "done" /\ failure = "none"

\* C1: an issue whose suppression duration is 0 is never reported as
\* suppressed by is_rate_limited, and rate_limit_notice never writes its key:
\* unless an issue with a non-zero duration shares the key, the entry of the
\* key in last_notified stays what it was when the cycle started.
C1_ZeroDurationNeverRecordedNorSuppressed ==
  \A i \in DOMAIN issues :
    hours_of(i) = 0 =>
      /\ i \notin limited
      /\ (/\ get_suppression_key(issues[i]).ok
          /\ \A j \in DOMAIN issues :
               get_suppression_key(issues[j]).ok /\ key_of(j) = key_of(i) => hours_of(j) = 0)
         => Entry(last_notified, key_of(i)) = Entry(start_notified, key_of(i))

\* a zero-duration issue was asked about while the store held a fresh entry
\* under its key, and the cycle went on to record the other issues
C1_Witness ==
  /\ Completed
  /\ noticed = Len(issues)
  /\ last_notified # start_notified
  /\ \E i \in DOMAIN issues :
       /\ hours_of(i) = 0
       /\ Evaluated(i)
       /\ key_of(i) \in DOMAIN start_notified
       /\ now - start_notified[key_of(i)].n < HOUR_SECONDS * WARNING_HOURS + GRACE_SECONDS

\* the keys rate_limit_notice wrote in this cycle
Recorded == {key_of(i) : i \in {j \in 1..noticed : hours_of(j) # 0}}

\* C2 (as amended): in a cycle with at least one issue that is not rate
\* limited, the entry of every issue rate_limit_notice was called for with a
\* non-zero duration is the current time, those that is_rate_limited
\* reported as suppressed included; every other entry is unchanged; a cycle
\* that runs to its end calls it for every issue, or for none when all are
\* suppressed.
C2_EveryIssueRecordedUnlessAllSuppressed ==
  /\ DOMAIN last_notified = DOMAIN start_notified \cup Recorded
  /\ \A k \in DOMAIN last_notified :
       last_notified[k] = IF k \in Recorded THEN Num(now) ELSE start_notified[k]
  /\ noticed > 0 => ~is_all_suppressed
  /\ Completed => noticed = IF is_all_suppressed THEN 0 ELSE Len(issues)

\* a cycle ran to its end and rewrote the entry of a suppressed issue
C2_Witness ==
  /\ Completed
  /\ \E i \in limited :
       /\ hours_of(i) # 0
       /\ Entry(start_notified, key_of(i)) \notin {Absent, Num(now)}
       /\ Entry(last_notified, key_of(i)) = Num(now)

\* C2 (as claimed): at the end of a cycle the entry is the current time
\* exactly for the issues with a non-zero duration that were not suppressed;
\* every other entry is unchanged.
C2_OnlyUnsuppressedRecorded ==
  Completed =>
    \A k \in DOMAIN last_notified \cup DOMAIN start_notified :
      Entry(last_notified, k) =
        IF \E i \in DOMAIN issues :
             /\ key_of(i) = k
             /\ hours_of(i) # 0
             /\ ~is_rate_limited(issues[i], start_notified).value
        THEN Num(now)
        ELSE Entry(start_notified, k)

Concerned == UNION {Range(authorities_of(issues[i])) : i \in DOMAIN issues}
Contacts(S) == {CONFIG.contact_address[a] : a \in S \cap DOMAIN CONFIG.contact_address}

\* C3 (as amended): a notification is sent only when some issue is not rate
\* limited, and it is built from every issue of the cycle: its body holds
\* the text of each issue in order, and cc and bcc hold the contacts of the
\* authorities of each issue, the suppressed ones included.
C3_NotificationCoversEveryIssue ==
  \A m \in Notifications :
    /\ ~is_all_suppressed
    /\ Len(m.body) = Len(issues)
    /\ \A i \in DOMAIN issues :
         m.body[i] = <<issues[i].runlevel, ":", " ">> \o get_message(issues[i])
    /\ m.cc = Contacts(Concerned \ CONFIG.contact_via_bcc)
    /\ m.bcc = Contacts(Concerned \cap CONFIG.contact_via_bcc)

\* a notification went out in a cycle with a suppressed issue
C3_Witness ==
  /\ Notifications # {}
  /\ limited # {}
  /\ \E i \in limited : get_message(issues[i]) # <<>>

\* C3 (as claimed): the notification holds no text and no destination that
\* comes only from an issue is_rate_limited reported as suppressed.
C3_NotificationFromSurvivingOnly ==
  \A m \in Notifications :
    \A i \in limited :
      /\ \A j \in DOMAIN m.body :
           m.body[j] = issue_str(issues[i]) =>
             \E s \in DOMAIN issues \ limited : issue_str(issues[s]) = m.body[j]
      /\ \A address \in Contacts(Range(authorities_of(issues[i]))) :
           address \in m.cc \cup m.bcc =>
             \E s \in DOMAIN issues \ limited :
               address \in Contacts(Range(authorities_of(issues[s])))

\* C4: for an issue with duration h > 0 whose key has a stored timestamp t,
\* is_rate_limited is true exactly when now - t < 3600*h + 1800; so when an
\* issue of the cycle has reached 3600*h + 1800 seconds since its recorded
\* notification, the cycle is not all suppressed.
C4_SuppressedExactlyWithinWindow ==
  pc = "notify" =>
    /\ \A i \in DOMAIN issues :
         (Evaluated(i) /\ hours_of(i) > 0 /\ key_of(i) \in DOMAIN start_notified) =>
           (i \in limited <=> now - start_notified[key_of(i)].n < 3600 * hours_of(i) + 1800)
    /\ (\E i \in DOMAIN issues :
          /\ get_suppression_key(issues[i]).ok
          /\ hours_of(i) > 0
          /\ key_of(i) \in DOMAIN start_notified
          /\ now - start_notified[key_of(i)].n >= 3600 * hours_of(i) + 1800)
       => ~is_all_suppressed

\* after an issue that is still suppressed, is_rate_limited was asked about
\* an issue exactly 3600*h + 1800 seconds after its recorded notification
C4_Witness ==
  /\ pc = "notify"
  /\ limited # {}
  /\ \E i \in DOMAIN issues \ limited :
       /\ Evaluated(i)
       /\ hours_of(i) > 0
       /\ key_of(i) \in DOMAIN start_notified
       /\ now - start_notified[key_of(i)].n = 3600 * hours_of(i) + 1800

\* C5: an issue whose key has no entry in last_notified is not reported as
\* suppressed.
C5_NoEntryNotSuppressed ==
  \A i \in limited : key_of(i) \in DOMAIN start_notified

SeverityDefault(runlevel) ==
  CASE runlevel = "NOTICE" -> 24 [] runlevel = "WARNING" -> 4 [] OTHER -> 0
Overridden(i) ==
  /\ issues[i].template \in DOMAIN CONFIG.suppression
  /\ CONFIG.suppression[issues[i].template].digits

\* C6 (as amended): get_suppression_duration is the override of the
\* template when one is configured and is an integer, and otherwise 24 for
\* NOTICE, 4 for WARNING and 0 for ERROR; an ERROR issue is never suppressed
\* unless its template has a non-zero integer override.
C6_DurationAndErrorsUnlessOverridden ==
  \A i \in DOMAIN issues :
    /\ hours_of(i) = IF Overridden(i) THEN CONFIG.suppression[issues[i].template].n
                     ELSE SeverityDefault(issues[i].runlevel)
    /\ (/\ issues[i].runlevel = "ERROR"
        /\ (~Overridden(i) \/ CONFIG.suppression[issues[i].template].n = 0))
       => i \notin limited

\* an ERROR issue with an override was suppressed, the ERROR issue after it
\* was not, and an issue with a non-numeric override got its default
C6_Witness ==
  /\ pc = "notify"
  /\ \E i \in limited : issues[i].runlevel = "ERROR" /\ Overridden(i)
  /\ \E j \in DOMAIN issues :
       Evaluated(j) /\ j \notin limited /\ issues[j].runlevel = "ERROR" /\ ~Overridden(j)
  /\ \E k \in DOMAIN issues :
       /\ issues[k].template \in DOMAIN CONFIG.suppression
       /\ ~Overridden(k)
       /\ hours_of(k) = 4

\* C6 (as claimed): the override when configured, else 24, 4, 0 by
\* severity; an ERROR issue is never suppressed.
C6_DurationAndErrorsNeverSuppressed ==
  \A i \in DOMAIN issues :
    /\ Overridden(i) => hours_of(i) = CONFIG.suppression[issues[i].template].n
    /\ issues[i].template \notin DOMAIN CONFIG.suppression
         => hours_of(i) = SeverityDefault(issues[i].runlevel)
    /\ issues[i].runlevel = "ERROR" => i \notin limited

NotLimited(i) ==
  LET r == is_rate_limited(issues[i], start_notified) IN r.ok /\ ~r.value
IsLimited(i) ==
  LET r == is_rate_limited(issues[i], start_notified) IN r.ok /\ r.value

\* C7: when the cycle is over, no message went to the sink if there was no
\* issue or every issue was rate limited, a message went to it if some issue
\* was not rate limited, and the two silent cases are reported differently.
C7_SentExactlyWhenSomeIssueNotLimited ==
  pc = "done" =>
    /\ (\A i \in DOMAIN issues : IsLimited(i)) => Notifications = {}
    /\ (\E i \in DOMAIN issues : NotLimited(i)) => Notifications # {}
    /\ issues = <<>> => report = "No issues found"
    /\ (issues # <<>> /\ \A i \in DOMAIN issues : IsLimited(i))
         => report = "All issues were suppressed"

FetchStage == pc \in {"get_consensuses", "get_votes"}
Fetched == ~FetchStage /\ pc # "run_checks"
ChecksRun == DOMAIN consensuses # {} /\ DOMAIN votes # {}
result_of(n) == checker(checker_functions[n], latest_consensus_of(consensuses), consensuses, votes)
SumLen(S) == LET RECURSIVE sum(_)
                 sum(T) == IF T = {} THEN 0
                           ELSE LET n == CHOOSE x \in T : TRUE
                                IN Len(result_of(n).issues) + sum(T \ {n})
             IN sum(S)

\* C8: when a checker raises, run_checks does not raise: the issues of the
\* other checkers are in the list, with exactly one more issue for every
\* checker that raised.
C8_CheckerErrorIsolated ==
  (Fetched /\ ChecksRun) =>
    LET raising == {n \in DOMAIN checker_functions : ~result_of(n).ok}
        fine == DOMAIN checker_functions \ raising
    IN raising # {} =>
         /\ failure \notin Range(checker_functions)
         /\ \A n \in fine : Range(result_of(n).issues) \subseteq Range(issues)
         /\ Len(issues) = Len(get_documents("consensus", replies.consensus).issues)
                          + Len(get_documents("vote", replies.vote).issues)
                          + SumLen(fine) + Cardinality(raising)

unavailable(a) ==
  {i \in DOMAIN issues :
     issues[i].template = "AUTHORITY_UNAVAILABLE" /\ issues[i].attr.authority = <<a>>}
Unreachable(a) ==
  replies.consensus[a].status = "error" /\ replies.vote[a].status = "error"
Answers_ok(a) ==
  replies.consensus[a].status = "ok" /\ replies.vote[a].status = "ok"

\* C9 (as amended): the fetch stage never aborts the cycle; the issue list
\* holds exactly one AUTHORITY_UNAVAILABLE issue per fetch of an authority
\* that raised, so two for an authority that is unreachable for its
\* consensus and for its vote, and the documents of every authority that
\* answered are collected.
C9_OneIssuePerFailedFetch ==
  ~FetchStage =>
    /\ pc = "run_checks" => failure = "none"
    /\ \A a \in Voting :
         /\ Cardinality(unavailable(a)) =
              Cardinality({l \in {"consensus", "vote"} : replies[l][a].status # "ok"})
         /\ a \in DOMAIN consensuses <=> replies.consensus[a].status # "error"
         /\ a \in DOMAIN votes <=> replies.vote[a].status # "error"
         /\ a \in DOMAIN consensuses => consensuses[a] = replies.consensus[a].doc
         /\ a \in DOMAIN votes => votes[a] = replies.vote[a].doc

\* one authority is unreachable, the other answers, and main goes on
C9_Witness ==
  /\ pc = "suppress"
  /\ \E a \in Voting :
       /\ Unreachable(a)
       /\ Cardinality(unavailable(a)) = 2
       /\ \A b \in Voting \ {a} :
            Answers_ok(b) /\ b \in DOMAIN consensuses /\ b \in DOMAIN votes

\* C9 (as claimed): one unreachable authority gives exactly one
\* AUTHORITY_UNAVAILABLE issue, and the documents of the others are
\* collected.
C9_OneIssuePerUnreachableAuthority ==
  pc = "run_checks" =>
    \A a \in Voting :
      (Unreachable(a) /\ \A b \in Voting \ {a} : Answers_ok(b)) =>
        /\ Cardinality(unavailable(a)) = 1
        /\ \A b \in Voting \ {a} : b \in DOMAIN consensuses /\ b \in DOMAIN votes

Unusable(i) ==
  \/ issues[i].template \notin DOMAIN CONFIG.msg
  \/ ~format(CONFIG.msg[issues[i].template], issues[i].attr).ok

\* C10: for an issue whose template is missing or wants a parameter the
\* issue does not carry, get_message gives empty text and
\* get_suppression_key, is_rate_limited and rate_limit_notice complete, so
\* no cycle is left through them.
C10_UnusableTemplateDegrades ==
  /\ failure \notin {"is_rate_limited", "rate_limit_notice"}
  /\ \A i \in DOMAIN issues :
       Unusable(i) => get_message(issues[i]) = <<>> /\ get_suppression_key(issues[i]).ok

JunkOverride(i) ==
  /\ issues[i].template \in DOMAIN CONFIG.suppression
  /\ ~CONFIG.suppression[issues[i].template].digits
JunkStored(i) ==
  /\ key_of(i) \in DOMAIN last_notified
  /\ ~last_notified[key_of(i)].digits
Asked == {i \in DOMAIN issues : i > noticed}

\* C11 (as amended): is_rate_limited does not raise on a non-numeric
\* suppression duration or a non-numeric stored value.  A non-numeric
\* duration is replaced by the default of the severity (24, 4, 0), so the
\* issue is suppressed exactly when a stored timestamp t has
\* now - t < 3600*h + 1800 for that default h; a non-numeric stored value is
\* read as the timestamp 0.
C11_JunkReadAsDefault ==
  \A i \in Asked :
    get_suppression_key(issues[i]).ok =>
      /\ ~(pc = "failed" /\ i = Len(issues))
      /\ JunkOverride(i) =>
           /\ hours_of(i) = SeverityDefault(issues[i].runlevel)
           /\ (key_of(i) \in DOMAIN last_notified /\ last_notified[key_of(i)].digits) =>
                (i \in limited <=>
                   (hours_of(i) > 0
                    /\ now - last_notified[key_of(i)].n < 3600 * hours_of(i) + 1800))
      /\ JunkStored(i) =>
           (i \in limited <=> (hours_of(i) > 0 /\ now - 0 < 3600 * hours_of(i) + 1800))

\* is_rate_limited returned True for an issue whose configured duration is
\* no number, and False for an issue whose stored value is no number
C11_Witness ==
  /\ pc = "asked"
  /\ \E i \in Asked : JunkOverride(i) /\ i \in limited
  /\ \E j \in Asked : JunkStored(j) /\ j \notin limited

\* C11 (as claimed): with a non-numeric configured duration or a
\* non-numeric stored value, is_rate_limited returns False and does not
\* raise.
C11_JunkNeverSuppressed ==
  \A i \in Asked :
    (get_suppression_key(issues[i]).ok /\ (JunkOverride(i) \/ JunkStored(i))) =>
      /\ ~(pc = "failed" /\ i = Len(issues))
      /\ i \notin limited

Stable(issue) ==
  Restrict(issue.attr, DOMAIN issue.attr \ DOMAIN volatile(issue.template))
SameStable(a, b) ==
  /\ a.template = b.template
  /\ a.runlevel = b.runlevel
  /\ Stable(a) = Stable(b)

CommitWindow == utc_hour(now) >= 8 /\ utc_hour(now) < 12
\* the votes whose record of the commitment of some authority differs from
\* what that authority's own vote records for itself
Disagreeing ==
  {a \in DOMAIN votes :
     \E b \in DOMAIN votes :
       \E i \in DOMAIN commitments_of(votes[a]) :
         /\ commitments_of(votes[a])[i].identity = v3ident_of(b)
         /\ own_entries(votes, b) # <<>>
         /\ commitments_of(votes[a])[i].commit # own_entries(votes, b)[1].commit}

\* C13: called between 8 and 11 UTC, shared_random_commit_partitioning
\* returns a WARNING SHARED_RANDOM_COMMITMENT_MISMATCH issue for each vote
\* that records a commitment other than the one its authority reports for
\* itself, and nothing else; before 8 and from 12 on it returns no issue.
C13_CommitMismatchReported ==
  (pc = "shared_random_commit_partitioning" /\ failure = "none") =>
    IF CommitWindow
    THEN /\ \A a \in Disagreeing :
              \E i \in DOMAIN issues :
                /\ issues[i].template = "SHARED_RANDOM_COMMITMENT_MISMATCH"
                /\ issues[i].runlevel = "WARNING"
                /\ issues[i].attr.authority = <<a>>
         /\ \A i \in DOMAIN issues :
              /\ issues[i].template = "SHARED_RANDOM_COMMITMENT_MISMATCH"
              /\ \E a \in Disagreeing : issues[i].attr.authority = <<a>>
    ELSE issues = <<>>

Stale == {a \in DOMAIN consensuses : now - consensuses[a].valid_after > 3600}

\* C14: missing_latest_consensus returns no issue when no consensus is more
\* than an hour old, and otherwise exactly one MISSING_LATEST_CONSENSUS
\* issue addressed to exactly the stale authorities, an ERROR when more than
\* 3 are stale and a WARNING when 1 to 3 are.
C14_OneIssueForTheStale ==
  pc = "missing_latest_consensus" =>
    /\ failure = "none"
    /\ IF Stale = {} THEN issues = <<>>
       ELSE /\ Len(issues) = 1
            /\ issues[1].template = "MISSING_LATEST_CONSENSUS"
            /\ Range(issues[1].attr.to) = Stale
            /\ Len(issues[1].attr.to) = Cardinality(Stale)
            /\ issues[1].runlevel = IF Cardinality(Stale) > 3 THEN "ERROR" ELSE "WARNING"

\* four of five consensuses are stale, one of them by a second, and the
\* fifth is exactly an hour old
C14_Witness ==
  /\ pc = "missing_latest_consensus"
  /\ Cardinality(DOMAIN consensuses) = 5
  /\ Cardinality(Stale) = 4
  /\ \E a \in Stale : now - consensuses[a].valid_after = 3601
  /\ \E a \in DOMAIN consensuses \ Stale : now - consensuses[a].valid_after = 3600
  /\ issues[1].runlevel = "ERROR"

TimeLeft(a) == votes[a].directory_authorities[1].expires - now
About(a) == {i \in DOMAIN issues : issues[i].attr.to = <<a>>}
Tier(runlevel, duration, a) ==
  \E i \in About(a) :
    /\ About(a) = {i}
    /\ issues[i].template = "CERTIFICATE_ABOUT_TO_EXPIRE"
    /\ issues[i].runlevel = runlevel
    /\ issues[i].attr.duration = duration

\* C15: certificate_expiration returns at most one issue per vote: a
\* WARNING 'week' when the certificate expires within 7 days, else a WARNING
\* 'two weeks' within 14 days, else a NOTICE 'three weeks' within 21 days,
\* and none beyond 21 days.
C15_FirstTierFromTheNarrowest ==
  (pc = "certificate_expiration" /\ failure = "none") =>
    /\ \A i \in DOMAIN issues : \E a \in DOMAIN votes : i \in About(a)
    /\ \A a \in DOMAIN votes :
         IF TimeLeft(a) <= 7 * 86400 THEN Tier("WARNING", <<"week">>, a)
         ELSE IF TimeLeft(a) <= 14 * 86400 THEN Tier("WARNING", <<"two", " ", "weeks">>, a)
         ELSE IF TimeLeft(a) <= 21 * 86400 THEN Tier("NOTICE", <<"three", " ", "weeks">>, a)
         ELSE About(a) = {}

\* one certificate expires a second after the 7 days and gets 'two weeks',
\* the other a second after the 21 days and gets no issue
C15_Witness ==
  /\ pc = "certificate_expiration"
  /\ failure = "none"
  /\ \E a, b \in DOMAIN votes :
       /\ TimeLeft(a) = 7 * 86400 + 1
       /\ Tier("WARNING", <<"two", " ", "weeks">>, a)
       /\ TimeLeft(b) = 21 * 86400 + 1
       /\ About(b) = {}

BadExitVoting == {a \in DOMAIN votes : \E fp \in DOMAIN votes[a].routers : votes[a].routers[fp]}
Flagging(fp) == {a \in BadExitVoting : fp \in DOMAIN votes[a].routers /\ votes[a].routers[fp]}
NotFlagging(fp) == {a \in BadExitVoting : fp \in DOMAIN votes[a].routers /\ ~votes[a].routers[fp]}
NotListing(fp) == {a \in BadExitVoting : fp \notin DOMAIN votes[a].routers}
Latest == latest_consensus_of(consensuses)
OutOfSync(fp) == {i \in DOMAIN issues : issues[i].attr.fingerprint = <<fp>>}

\* C16: for each relay that some but not all BadExit-voting authorities
\* flag, that is in the latest consensus and that some BadExit-voting
\* authority lists without the flag, bad_exits_in_sync returns one NOTICE,
\* addressed to the flagging authorities when the consensus does not flag
\* the relay and to the listing, non-flagging ones when it does; every other
\* relay yields no issue, and an authority that does not list the relay is
\* never addressed.
C16_NoticeToTheSideAgainstConsensus ==
  pc = "bad_exits_in_sync" =>
    /\ failure = "none"
    /\ \A i \in DOMAIN issues : \E fp \in {"X", "Y"} : i \in OutOfSync(fp)
    /\ \A fp \in {"X", "Y"} :
         IF /\ Flagging(fp) # {}
            /\ Flagging(fp) # BadExitVoting
            /\ NotFlagging(fp) # {}
            /\ fp \in DOMAIN Latest.routers
         THEN \E i \in OutOfSync(fp) :
                /\ OutOfSync(fp) = {i}
                /\ issues[i].runlevel = "NOTICE"
                /\ issues[i].template = "BADEXIT_OUT_OF_SYNC"
                /\ Range(issues[i].attr.to) =
                     IF Latest.routers[fp] THEN NotFlagging(fp) ELSE Flagging(fp)
                /\ Range(issues[i].attr.to) \cap NotListing(fp) = {}
         ELSE OutOfSync(fp) = {}

\* moria1 flags X, dizum lists X without the flag, gabelmoo flags another
\* relay and does not list X, the consensus has X without the flag: the
\* notice goes to moria1
C16_Witness ==
  /\ pc = "bad_exits_in_sync"
  /\ Flagging("X") = {"moria1"}
  /\ NotFlagging("X") = {"dizum"}
  /\ NotListing("X") = {"gabelmoo"}
  /\ "X" \in DOMAIN Latest.routers /\ ~Latest.routers["X"]
  /\ \E i \in OutOfSync("X") : issues[i].attr.to = <<"moria1">>

\* the nicknames of the voting identities that did not sign the consensus
Unsigned(c) ==
  {n \in {"moria1", "dizum"} :
     (IF n = "moria1" THEN "V_moria1" ELSE "V_dizum") \notin consensuses[c].signatures}
Concerning(c) == {i \in DOMAIN issues : issues[i].attr.consensus_of = <<c>>}

\* C17: for a consensus whose signatures lack known voting identities,
\* has_all_signatures returns one NOTICE MISSING_SIGNATURE issue naming
\* exactly the authorities of those identities by nickname; for a consensus
\* signed by every known voting identity it returns none.
C17_MissingSignersByNickname ==
  pc = "has_all_signatures" =>
    /\ failure = "none"
    /\ \A i \in DOMAIN issues : \E c \in DOMAIN consensuses : i \in Concerning(c)
    /\ \A c \in DOMAIN consensuses :
         IF Unsigned(c) = {} THEN Concerning(c) = {}
         ELSE \E i \in Concerning(c) :
                /\ Concerning(c) = {i}
                /\ issues[i].runlevel = "NOTICE"
                /\ issues[i].template = "MISSING_SIGNATURE"
                /\ Range(issues[i].attr.to) = Unsigned(c)
                /\ Len(issues[i].attr.to) = Cardinality(Unsigned(c))
                /\ issues[i].attr.authorities = join(issues[i].attr.to)

\* moria1's consensus lacks the signature of dizum and carries one of an
\* unknown identity, dizum's consensus is signed by both
C17_Witness ==
  /\ pc = "has_all_signatures"
  /\ DOMAIN consensuses = {"moria1", "dizum"}
  /\ consensuses["moria1"].signatures = {"V_moria1", "V_unknown"}
  /\ consensuses["dizum"].signatures = {"V_moria1", "V_dizum"}
  /\ Len(issues) = 1
  /\ issues[1].attr.to = <<"dizum">>

\* C18: when a cycle fails with an unexpected error, the persisted
\* last_notified store is the one the cycle started with.
C18_FailedCyclePersistsNothing ==
  failure # "none" => last_notified = start_notified

FetchIssues ==
  get_documents("consensus", replies.consensus).issues
  \o get_documents("vote", replies.vote).issues
CheckerRaised == failure \in Range(checker_functions)

\* C19 (as amended): run_checks is executed exactly when at least one
\* consensus and at least one vote were fetched, and its issues are then
\* added to the fetch-stage issues unless a checker raises; when all
\* consensus fetches or all vote fetches failed the checks are skipped and
\* the issue list is the fetch-stage issues.
C19_ChecksNeedConsensusAndVote ==
  Fetched =>
    IF DOMAIN consensuses # {} /\ DOMAIN votes # {}
    THEN IF run_checks(consensuses, votes).ok
         THEN ~CheckerRaised /\ issues = FetchIssues \o run_checks(consensuses, votes).all_issues
         ELSE CheckerRaised /\ issues = FetchIssues
    ELSE ~CheckerRaised /\ issues = FetchIssues

\* every vote fetch failed, a consensus that the checks would report as
\* stale was fetched, and the cycle went on with the fetch-stage issues
C19_Witness ==
  /\ pc = "suppress"
  /\ DOMAIN votes = {}
  /\ \E a \in DOMAIN consensuses : now - consensuses[a].valid_after > 3600
  /\ issues = FetchIssues
  /\ issues # <<>>

\* C19 (as claimed): whenever a consensus was fetched, run_checks is
\* executed and its issues are added to the fetch-stage issues, also when
\* every vote fetch failed.
C19_ChecksRunOnAnyDocuments ==
  (Fetched /\ DOMAIN consensuses # {} /\ run_checks(consensuses, votes).ok) =>
    issues = FetchIssues \o run_checks(consensuses, votes).all_issues

RevealWindow == utc_hour(now) >= 20
Echoes(a, b) == SelectSeq(commitments_of(votes[a]), LAMBDA c : c.identity = v3ident_of(b))
\* the template and the authority of every issue the reveal check owes
OwedReveal ==
  {<<"SHARED_RANDOM_NO_REVEAL", a>> : a \in {x \in DOMAIN votes : Len(Echoes(x, x)) = 0}} \cup
  {<<"SHARED_RANDOM_MULTIPLE_REVEAL", a>> : a \in {x \in DOMAIN votes : Len(Echoes(x, x)) > 1}} \cup
  UNION {
    {<<"SHARED_RANDOM_REVEAL_MISSING", a>> : a \in {x \in DOMAIN votes : Len(Echoes(x, b)) = 0}} \cup
    {<<"SHARED_RANDOM_REVEAL_DUPLICATED", a>> : a \in {x \in DOMAIN votes : Len(Echoes(x, b)) > 1}} \cup
    {<<"SHARED_RANDOM_REVEAL_MISMATCH", a>> :
       a \in {x \in DOMAIN votes : /\ Len(Echoes(x, b)) = 1
                                   /\ Echoes(x, b)[1].reveal # Echoes(b, b)[1].reveal}}
    : b \in {y \in DOMAIN votes : Len(Echoes(y, y)) = 1}}

\* C20: called from 20 UTC on, shared_random_reveal_partitioning returns a
\* WARNING of the matching sub-case for every authority without or with
\* several reveals of its own and for every vote that lacks, repeats or
\* alters the single reveal of an authority, and nothing for a vote
\* that echoes it once with the same value; before 20 UTC it returns no
\* issue.
C20_RevealSubCasesReported ==
  pc = "shared_random_reveal_partitioning" =>
    IF RevealWindow
    THEN /\ \A i \in DOMAIN issues : issues[i].runlevel = "WARNING"
         /\ {<<issues[i].template, issues[i].attr.authority[1]>> : i \in DOMAIN issues} = OwedReveal
    ELSE issues = <<>>

====
